---- MODULE Spec2Model ----
(***************************************************************************)
(* A model of WebRequest (WebKit/android/WebCoreSupport/WebRequest.cpp):   *)
(* the per-request load state machine, its notifications to the           *)
(* WebUrlLoaderClient, the read loop and the non-network content sources. *)
(*                                                                         *)
(* Spec      every handler is one atomic step (serialized handlers); any   *)
(*           operation may be invoked in any state, a failed ASSERT        *)
(*           aborts the process.                                           *)
(* SpecRace  cancel() on the owner thread interleaved statement by         *)
(*           statement with the transport callbacks on the IO thread.      *)
(***************************************************************************)
EXTENDS Integers, Sequences, FiniteSets, TLC

\* ------------------------------------------------------------------ bounds
MaxChunks == 3
MaxLen == 1
MaxRedirects == 1
MaxAuth == 1
MaxUpload == 1

\* ------------------------------------------------- LoadState (WebRequest.h)
Created == 0
Started == 1
Response == 2
GotData == 3
Cancelled == 4
Finished == 5
Deleted == 6

\* ----------------------------------------------------- the ASSERT messages
NoCrash == "none"
AssertDtor == "dtor called on a WebRequest in a different state than finished"
AssertFinish == "called finish on an already finished WebRequest"
AssertAppend == "AppendBytesToUpload called on a WebRequest not in CREATED state"
AssertStart == "Start called on a WebRequest not in CREATED state"
AssertCancelNotStarted == "Cancel called on a not started WebRequest"
AssertCancelTwice == "Cancel called on an already cancelled WebRequest"
AssertRequestNull == "Request set to 0 before it is finished"
AssertRedirect == "Redirect after receiving response"
AssertAuthRequired == "OnAuthRequired called on a WebRequest not in STARTED state"
AssertResponse == "Got response after receiving response"
AssertSetAuth == "setAuth called on a WebRequest not in STARTED state"
AssertCancelAuth == "cancelAuth called on a WebRequest not in STARTED state"
AssertStartReading == "StartReading in state other than RESPONSE and GOTDATA"
AssertRead == "read in state other than RESPONSE and GOTDATA"
AssertReadBuffer == "Read called with a nonzero buffer"
AssertReadCompleted == "OnReadCompleted in state other than RESPONSE and GOTDATA"
NullDeref == "null pointer dereferenced"

VARIABLES
    m_loadState,      \* WebRequest::m_loadState
    m_request,        \* 1: the URLRequest handle, 0: null
    m_urlLoader,      \* 1: the WebUrlLoaderClient handle, 0: null
    m_networkBuffer,  \* the id of the IOBuffer held, 0: null
    m_androidUrl,     \* constructed by the InputStream constructor
    m_inputStream,    \* the global ref of the InputStream, 0: none
    m_url,            \* the URL of the request, as what the code reads of it
    asset,            \* the incognito start page of the asset manager
    body,             \* the number of chunks the transport / stream yields
    posted,           \* the tasks given to maybeCallOnMainThread, in order
    crashed,          \* the ASSERT that aborted the process, or NoCrash
    tStarted,         \* URLRequest::Start was called
    tCancelled,       \* URLRequest::Cancel was called
    tPending,         \* the buffer of the read that reported IO_PENDING, or 0
    tPos,             \* the number of chunks the transport has handed out
    tEof,             \* the transport has reported the end of the body
    tFailed,          \* a URLRequest::Read has failed with an error
    tAuth,            \* SetAuth / CancelAuth calls forwarded to the transport
    tUpload,          \* chunks appended to the upload body
    nextBuf,          \* the number of IOBuffers allocated so far
    readsIssued,      \* the number of URLRequest::Read calls
    stateTrace,       \* every value assigned to m_loadState, in order
    finishRuns,       \* the number of times finish() released the handles
    redirects,        \* OnReceivedRedirect deliveries
    authAsked,        \* OnAuthRequired deliveries
    respStatus,       \* the status of the OnResponseStarted accepted in Started
    lastOp,           \* the operation of the last step and the state it saw
    tick,             \* flips at every operation
    pc,               \* SpecRace: the position of each thread
    loc               \* SpecRace: the locals of each thread

objVars == <<m_loadState, m_request, m_urlLoader, m_networkBuffer, posted, crashed,
             tStarted, tCancelled, tPending, tPos, tEof, tFailed, tAuth, tUpload, nextBuf,
             readsIssued, stateTrace, finishRuns>>
cfgVars == <<m_androidUrl, m_inputStream, m_url, asset, body>>
envVars == <<redirects, authAsked, respStatus>>
raceVars == <<pc, loc>>
vars == <<objVars, cfgVars, envVars, lastOp, tick, raceVars>>

\* ------------------------------------------------------------ value spaces
Bytes == {"a"}
RECURSIVE SeqsUpTo(_, _)
SeqsUpTo(S, n) ==
    IF n = 0 THEN {<<>>}
    ELSE LET shorter == SeqsUpTo(S, n - 1)
         IN  shorter \cup {Append(s, b) : s \in {t \in shorter : Len(t) = n - 1}, b \in S}
Payloads == SeqsUpTo(Bytes, MaxLen)
NoAsset == <<"no asset">>

NoUrl == [scheme |-> "http", spec |-> "http://host/", wellFormed |-> TRUE,
          mime |-> "", charset |-> "", payload |-> <<>>, query |-> "", ext |-> ""]
NetworkUrls == {NoUrl}
DataUrls ==
    {[NoUrl EXCEPT !.scheme = "data", !.spec = "data:", !.wellFormed = w,
                   !.mime = "text/plain", !.charset = c, !.payload = p] :
        w \in BOOLEAN, c \in {"", "utf-8"}, p \in Payloads}
BrowserUrls ==
    {[NoUrl EXCEPT !.scheme = "browser", !.spec = s] :
        s \in {"browser:incognito", "browser:other"}}
AndroidUrls ==
    {[NoUrl EXCEPT !.scheme = "android", !.spec = "file:///android_asset/", !.query = q, !.ext = e] :
        q \in {"", "image/png"}, e \in {"", "text/css"}}

\* A WebResponse: url, mime type, expected length, encoding, http status.
WebResponse(url, mime, len, charset, status) ==
    [url |-> url, mime |-> mime, len |-> len, charset |-> charset, status |-> status]
\* WebResponse(URLRequest*): what the transport knows of the response.
WebResponseOf(request) ==
    IF request = 0 THEN WebResponse("", "", 0, "", 0)
    ELSE WebResponse("http://host/", "transport", 0, "transport", 0)
NoResponse == WebResponse("-", "-", 0, "-", 0)

\* The tasks posted to the WebUrlLoaderClient.
Note(type) == [type |-> type, resp |-> NoResponse, buf |-> 0, chunk |-> 0, size |-> 0, data |-> <<>>]
DidFinishLoading == Note("didFinishLoading")
DidFail(resp) == [Note("didFail") EXCEPT !.resp = resp]
DidReceiveResponse(resp) == [Note("didReceiveResponse") EXCEPT !.resp = resp]
WillSendRequest(resp) == [Note("willSendRequest") EXCEPT !.resp = resp]
AuthRequired == Note("authRequired")
DidReceiveData(buf, chunk, size) ==
    [Note("didReceiveData") EXCEPT !.buf = buf, !.chunk = chunk, !.size = size]
DidReceiveAndroidFileData(chunk) == [Note("didReceiveAndroidFileData") EXCEPT !.chunk = chunk]
DidReceiveDataUrl(data) == [Note("didReceiveDataUrl") EXCEPT !.data = data, !.size = Len(data)]

TerminalTypes == {"didFinishLoading", "didFail"}
DataTypes == {"didReceiveData", "didReceiveAndroidFileData", "didReceiveDataUrl"}

\* ------------------------------------------------- the object as a record
Cur ==
    [m_loadState |-> m_loadState, m_request |-> m_request, m_urlLoader |-> m_urlLoader,
     m_networkBuffer |-> m_networkBuffer, posted |-> posted, crashed |-> crashed,
     tStarted |-> tStarted, tCancelled |-> tCancelled, tPending |-> tPending,
     tPos |-> tPos, tEof |-> tEof, tFailed |-> tFailed, tAuth |-> tAuth, tUpload |-> tUpload,
     nextBuf |-> nextBuf, readsIssued |-> readsIssued,
     stateTrace |-> stateTrace, finishRuns |-> finishRuns]

Becomes(o) ==
    /\ m_loadState' = o.m_loadState
    /\ m_request' = o.m_request
    /\ m_urlLoader' = o.m_urlLoader
    /\ m_networkBuffer' = o.m_networkBuffer
    /\ posted' = o.posted
    /\ crashed' = o.crashed
    /\ tStarted' = o.tStarted
    /\ tCancelled' = o.tCancelled
    /\ tPending' = o.tPending
    /\ tPos' = o.tPos
    /\ tEof' = o.tEof
    /\ tFailed' = o.tFailed
    /\ tAuth' = o.tAuth
    /\ tUpload' = o.tUpload
    /\ nextBuf' = o.nextBuf
    /\ readsIssued' = o.readsIssued
    /\ stateTrace' = o.stateTrace
    /\ finishRuns' = o.finishRuns

\* ASSERT(...) failing: the message is logged and the process aborts.
Crash(o, msg) == [o EXCEPT !.crashed = msg]
\* m_loadState = s
SetState(o, s) == [o EXCEPT !.m_loadState = s, !.stateTrace = Append(@, s)]
\* m_urlLoader->maybeCallOnMainThread(NewRunnableMethod(m_urlLoader.get(), ...))
Post(o, n) ==
    IF o.m_urlLoader = 0 THEN Crash(o, NullDeref)
    ELSE [o EXCEPT !.posted = Append(@, n)]


\* ------------------------------------------------------------ the transport
\* How the transport answers the reads of one run of the read loop: the first
\* nsync reads complete at once, the next one ends as `last` says.
ReadModes == {"sync", "pending", "error"}
Scripts(o) ==
    IF o.tEof
    THEN {[nsync |-> 1, last |-> "error"], [nsync |-> 0, last |-> "error"]}
    ELSE {[nsync |-> k, last |-> e] : k \in 0..(body - o.tPos), e \in {"pending", "error"}}
         \cup {[nsync |-> body - o.tPos + 1, last |-> "error"]}

\* URLRequest::Read(buf, size, &bytesRead) answering in the given mode.
TransportRead(o, buf, mode) ==
    LET issued == [o EXCEPT !.readsIssued = @ + 1]
    IN  CASE mode = "sync" /\ o.tPos < body /\ ~o.tCancelled ->
                [obj |-> [issued EXCEPT !.tPos = @ + 1],
                 ret |-> TRUE, bytesRead |-> 1, chunk |-> o.tPos + 1, pending |-> FALSE]
          [] mode = "sync" /\ (o.tPos >= body \/ o.tCancelled) ->
                [obj |-> [issued EXCEPT !.tEof = TRUE],
                 ret |-> TRUE, bytesRead |-> 0, chunk |-> 0, pending |-> FALSE]
          [] mode = "pending" ->
                [obj |-> [issued EXCEPT !.tPending = buf],
                 ret |-> FALSE, bytesRead |-> 0, chunk |-> 0, pending |-> TRUE]
          [] OTHER ->
                [obj |-> [issued EXCEPT !.tFailed = TRUE],
                 ret |-> FALSE, bytesRead |-> 0, chunk |-> 0, pending |-> FALSE]

\* What the transport puts in the buffer of the pending read when it completes
\* it: the next chunk, or nothing at the end of the body.
TransportComplete(o) ==
    IF o.tPos < body
    THEN [obj |-> [o EXCEPT !.tPos = @ + 1, !.tPending = 0], bytesRead |-> 1, chunk |-> o.tPos + 1]
    ELSE [obj |-> [o EXCEPT !.tEof = TRUE, !.tPending = 0], bytesRead |-> 0, chunk |-> 0]

\* net::DataURL::Parse(url, &mimeType, &charset, &data)
DataURLParse(url) ==
    IF url.scheme = "data" /\ url.wellFormed
    THEN [ok |-> TRUE, mime |-> url.mime, charset |-> url.charset, data |-> url.payload]
    ELSE [ok |-> FALSE, mime |-> "", charset |-> "", data |-> <<>>]

\* ------------------------------------------------------- WebRequest methods
finish(o, success) ==
    IF ~(o.m_loadState < Finished) THEN Crash(o, AssertFinish)
    ELSE LET o1 == SetState(o, Finished)
             o2 == IF success THEN Post(o1, DidFinishLoading)
                   ELSE Post(o1, DidFail(WebResponseOf(o1.m_request)))
         IN  IF o2.crashed # NoCrash THEN o2
             ELSE [o2 EXCEPT !.m_networkBuffer = 0, !.m_request = 0, !.m_urlLoader = 0,
                             !.finishRuns = @ + 1]

AppendBytesToUpload(o) ==
    IF o.m_loadState # Created THEN Crash(o, AssertAppend)
    ELSE IF o.m_request = 0 THEN Crash(o, NullDeref)
    ELSE [o EXCEPT !.tUpload = @ + 1]

\* cancel() without the check that the request has already finished.
cancel_NoFinishedCheck(o) ==
    IF ~(o.m_loadState >= Started) THEN Crash(o, AssertCancelNotStarted)
    ELSE IF ~(o.m_loadState # Cancelled) THEN Crash(o, AssertCancelTwice)
    ELSE IF o.m_request = 0 THEN Crash(o, AssertRequestNull)
    ELSE LET o1 == SetState(o, Cancelled)
             o2 == [o1 EXCEPT !.tCancelled = TRUE]
         IN  finish(o2, TRUE)

\* cancel() that cancels the transport and forgets to call finish(true).
cancel_NoFinish(o) ==
    IF ~(o.m_loadState >= Started) THEN Crash(o, AssertCancelNotStarted)
    ELSE IF ~(o.m_loadState # Cancelled) THEN Crash(o, AssertCancelTwice)
    ELSE IF o.m_loadState > Cancelled THEN o
    ELSE IF o.m_request = 0 THEN Crash(o, AssertRequestNull)
    ELSE LET o1 == SetState(o, Cancelled)
         IN  [o1 EXCEPT !.tCancelled = TRUE]

\* cancel() ending the request with finish(false).
cancel_FinishFalse(o) ==
    IF ~(o.m_loadState >= Started) THEN Crash(o, AssertCancelNotStarted)
    ELSE IF ~(o.m_loadState # Cancelled) THEN Crash(o, AssertCancelTwice)
    ELSE IF o.m_loadState > Cancelled THEN o
    ELSE IF o.m_request = 0 THEN Crash(o, AssertRequestNull)
    ELSE LET o1 == SetState(o, Cancelled)
             o2 == [o1 EXCEPT !.tCancelled = TRUE]
         IN  finish(o2, FALSE)

cancel(o) ==
    IF ~(o.m_loadState >= Started) THEN Crash(o, AssertCancelNotStarted)
    ELSE IF ~(o.m_loadState # Cancelled) THEN Crash(o, AssertCancelTwice)
    ELSE IF o.m_loadState > Cancelled THEN o
    ELSE IF o.m_request = 0 THEN Crash(o, AssertRequestNull)
    ELSE LET o1 == SetState(o, Cancelled)
             o2 == [o1 EXCEPT !.tCancelled = TRUE]
         IN  finish(o2, TRUE)

RECURSIVE StreamLoop(_, _)
StreamLoop(o, i) ==
    IF o.crashed # NoCrash \/ i > body THEN o
    ELSE StreamLoop(Post(SetState(o, GotData), DidReceiveAndroidFileData(i)), i + 1)

AndroidMimeType ==
    IF m_url.query # "" THEN m_url.query
    ELSE IF m_url.ext # "" THEN m_url.ext
    ELSE "text/html"

\* handleAndroidURL() whose null-stream branch lacks its return.
handleAndroidURL_NoReturn(o) ==
    LET o0 == IF m_inputStream = 0
              THEN Post(SetState(o, Finished), DidFail(WebResponse(m_url.spec, "", 0, "", 0)))
              ELSE o
        o1 == SetState(o0, Response)
        o2 == Post(o1, DidReceiveResponse(WebResponse(m_url.spec, AndroidMimeType, 0, "", 200)))
        o3 == StreamLoop(o2, 1)
    IN  IF o3.crashed # NoCrash THEN o3
        ELSE [Post(SetState(o3, Finished), DidFinishLoading)
                 EXCEPT !.m_networkBuffer = 0, !.m_request = 0, !.m_urlLoader = 0,
                        !.finishRuns = @ + 1]

\* handleAndroidURL() without the test for a missing InputStream.
handleAndroidURL_NoNullCheck(o) ==
    LET o1 == SetState(o, Response)
        o2 == Post(o1, DidReceiveResponse(WebResponse(m_url.spec, AndroidMimeType, 0, "", 200)))
        o3 == StreamLoop(o2, 1)
    IN  IF o3.crashed # NoCrash THEN o3 ELSE finish(o3, TRUE)

handleAndroidURL(o) ==
    IF m_inputStream = 0
    THEN Post(SetState(o, Finished), DidFail(WebResponse(m_url.spec, "", 0, "", 0)))
    ELSE LET o1 == SetState(o, Response)
             o2 == Post(o1, DidReceiveResponse(WebResponse(m_url.spec, AndroidMimeType, 0, "", 200)))
             o3 == StreamLoop(o2, 1)
         IN  IF o3.crashed # NoCrash THEN o3 ELSE finish(o3, TRUE)

\* handleDataURL() posting the payload ahead of the response.
handleDataURL_DataFirst(o, url) ==
    LET parsed == DataURLParse(url)
    IN  IF parsed.ok
        THEN LET o1 == SetState(o, Response)
                 o2 == IF parsed.data # <<>>
                       THEN Post(SetState(o1, GotData), DidReceiveDataUrl(parsed.data))
                       ELSE o1
                 o3 == Post(o2, DidReceiveResponse(
                           WebResponse(url.spec, parsed.mime, Len(parsed.data), parsed.charset, 200)))
             IN  IF o3.crashed # NoCrash THEN o3 ELSE finish(o3, TRUE)
        ELSE finish(o, TRUE)

\* handleDataURL() without the test for an empty payload.
handleDataURL_NoEmptyCheck(o, url) ==
    LET parsed == DataURLParse(url)
    IN  IF parsed.ok
        THEN LET o1 == SetState(o, Response)
                 o2 == Post(o1, DidReceiveResponse(
                           WebResponse(url.spec, parsed.mime, Len(parsed.data), parsed.charset, 200)))
                 o3 == Post(SetState(o2, GotData), DidReceiveDataUrl(parsed.data))
             IN  IF o3.crashed # NoCrash THEN o3 ELSE finish(o3, TRUE)
        ELSE finish(o, TRUE)

handleDataURL(o, url) ==
    LET parsed == DataURLParse(url)
    IN  IF parsed.ok
        THEN LET o1 == SetState(o, Response)
                 o2 == Post(o1, DidReceiveResponse(
                           WebResponse(url.spec, parsed.mime, Len(parsed.data), parsed.charset, 200)))
                 o3 == IF parsed.data # <<>>
                       THEN Post(SetState(o2, GotData), DidReceiveDataUrl(parsed.data))
                       ELSE o2
             IN  IF o3.crashed # NoCrash THEN o3 ELSE finish(o3, TRUE)
        ELSE finish(o, TRUE)

handleBrowserURL(o, url) ==
    LET content == IF url.spec = "browser:incognito" /\ asset # NoAsset THEN asset ELSE <<>>
        dataURL == [NoUrl EXCEPT !.scheme = "data", !.spec = "data:text/html;charset=utf-8,",
                                 !.wellFormed = TRUE, !.mime = "text/html",
                                 !.charset = "utf-8", !.payload = content]
    IN  handleDataURL(o, dataURL)

start(o) ==
    IF o.m_loadState # Created THEN Crash(o, AssertStart)
    ELSE LET o1 == SetState(o, Started)
         IN  IF m_androidUrl THEN handleAndroidURL(o1)
             ELSE IF m_url.scheme = "data" THEN handleDataURL(o1, m_url)
             ELSE IF m_url.scheme = "browser" THEN handleBrowserURL(o1, m_url)
             ELSE [o1 EXCEPT !.tStarted = TRUE]

\* OnReceivedRedirect() that finishes the request on a failed status.
OnReceivedRedirect_FailFinishes(o, newRequestOk) ==
    IF ~(o.m_loadState < Response) THEN Crash(o, AssertRedirect)
    ELSE IF newRequestOk
         THEN Post(o, WillSendRequest([WebResponseOf(1) EXCEPT !.url = "http://redirect/"]))
         ELSE finish(o, FALSE)

OnReceivedRedirect(o, newRequestOk) ==
    IF ~(o.m_loadState < Response) THEN Crash(o, AssertRedirect)
    ELSE IF newRequestOk
         THEN Post(o, WillSendRequest([WebResponseOf(1) EXCEPT !.url = "http://redirect/"]))
         ELSE o

\* OnAuthRequired() without its ASSERT on the load state.
OnAuthRequired_NoAssert(o) == Post(o, AuthRequired)

OnAuthRequired(o) ==
    IF o.m_loadState # Started THEN Crash(o, AssertAuthRequired)
    ELSE Post(o, AuthRequired)

setAuth(o) ==
    IF o.m_loadState # Started THEN Crash(o, AssertSetAuth)
    ELSE IF o.m_request = 0 THEN Crash(o, NullDeref)
    ELSE [o EXCEPT !.tAuth = @ + 1]

cancelAuth(o) ==
    IF o.m_loadState # Started THEN Crash(o, AssertCancelAuth)
    ELSE IF o.m_request = 0 THEN Crash(o, NullDeref)
    ELSE [o EXCEPT !.tAuth = @ + 1]

\* read(&bytesRead): the new object and what URLRequest::Read returned.
read(o, mode) ==
    IF ~(o.m_loadState = Response \/ o.m_loadState = GotData)
    THEN [obj |-> Crash(o, AssertRead), ret |-> FALSE, bytesRead |-> 0, chunk |-> 0, pending |-> FALSE]
    ELSE IF ~(o.m_networkBuffer = 0)
    THEN [obj |-> Crash(o, AssertReadBuffer), ret |-> FALSE, bytesRead |-> 0, chunk |-> 0, pending |-> FALSE]
    ELSE LET buf == o.nextBuf + 1
             o1 == [o EXCEPT !.nextBuf = buf, !.m_networkBuffer = buf]
         IN  IF o1.m_request = 0
             THEN [obj |-> Crash(o1, NullDeref), ret |-> FALSE, bytesRead |-> 0, chunk |-> 0, pending |-> FALSE]
             ELSE TransportRead(o1, buf, mode)

\* The while (true) of startReading.
RECURSIVE ReadLoop(_, _)
ReadLoop(o, script) ==
    LET mode == IF script.nsync > 0 THEN "sync" ELSE script.last
        rest == [script EXCEPT !.nsync = IF @ > 0 THEN @ - 1 ELSE 0]
        r == read(o, mode)
        o1 == r.obj
    IN  IF o1.crashed # NoCrash THEN o1
        ELSE IF r.ret
        THEN IF r.bytesRead = 0 THEN finish(o1, TRUE)
             ELSE LET o2 == SetState(o1, GotData)
                      o3 == Post(o2, DidReceiveData(o2.m_networkBuffer, r.chunk, r.bytesRead))
                      o4 == [o3 EXCEPT !.m_networkBuffer = 0]
                  IN  IF o3.crashed # NoCrash THEN o3 ELSE ReadLoop(o4, rest)
        ELSE IF o1.m_request # 0 /\ r.pending THEN o1
        ELSE finish(o1, FALSE)

startReading(o, script) ==
    IF ~(o.m_loadState = Response \/ o.m_loadState = GotData) THEN Crash(o, AssertStartReading)
    ELSE ReadLoop(o, script)

\* OnResponseStarted() posting the response before it looks at the status.
OnResponseStarted_ResponseFirst(o, status, script) ==
    IF o.m_loadState # Started THEN Crash(o, AssertResponse)
    ELSE LET o1 == SetState(o, Response)
             o2 == Post(o1, DidReceiveResponse(WebResponseOf(1)))
         IN  IF o2.crashed # NoCrash THEN o2
             ELSE IF status = "success" THEN startReading(o2, script)
             ELSE finish(o2, FALSE)

OnResponseStarted(o, status, script) ==
    IF o.m_loadState # Started THEN Crash(o, AssertResponse)
    ELSE LET o1 == SetState(o, Response)
         IN  IF status = "success"
             THEN LET o2 == Post(o1, DidReceiveResponse(WebResponseOf(1)))
                  IN  IF o2.crashed # NoCrash THEN o2 ELSE startReading(o2, script)
             ELSE finish(o1, FALSE)

\* OnReadCompleted() that forwards the buffer and keeps its own reference.
OnReadCompleted_KeepsBuffer(o, status, script) ==
    IF ~(o.m_loadState = Response \/ o.m_loadState = GotData) THEN Crash(o, AssertReadCompleted)
    ELSE IF status = "success"
         THEN LET c == TransportComplete(o)
                  o1 == SetState(c.obj, GotData)
                  o2 == Post(o1, DidReceiveData(o1.m_networkBuffer, c.chunk, c.bytesRead))
              IN  IF o2.crashed # NoCrash THEN o2 ELSE startReading(o2, script)
         ELSE finish([o EXCEPT !.tPending = 0], FALSE)

\* OnReadCompleted() without its ASSERT on the load state.
OnReadCompleted_NoAssert(o, status, script) ==
    IF status = "success"
    THEN LET c == TransportComplete(o)
             o1 == SetState(c.obj, GotData)
             o2 == Post(o1, DidReceiveData(o1.m_networkBuffer, c.chunk, c.bytesRead))
             o3 == [o2 EXCEPT !.m_networkBuffer = 0]
         IN  IF o2.crashed # NoCrash THEN o2 ELSE startReading(o3, script)
    ELSE finish([o EXCEPT !.tPending = 0], FALSE)

\* OnReadCompleted() that forwards the buffer and does not resume the loop.
OnReadCompleted_NoResume(o, status, script) ==
    IF ~(o.m_loadState = Response \/ o.m_loadState = GotData) THEN Crash(o, AssertReadCompleted)
    ELSE IF status = "success"
         THEN LET c == TransportComplete(o)
                  o1 == SetState(c.obj, GotData)
                  o2 == Post(o1, DidReceiveData(o1.m_networkBuffer, c.chunk, c.bytesRead))
              IN  IF o2.crashed # NoCrash THEN o2 ELSE [o2 EXCEPT !.m_networkBuffer = 0]
         ELSE finish([o EXCEPT !.tPending = 0], FALSE)

OnReadCompleted(o, status, script) ==
    IF ~(o.m_loadState = Response \/ o.m_loadState = GotData) THEN Crash(o, AssertReadCompleted)
    ELSE IF status = "success"
         THEN LET c == TransportComplete(o)
                  o1 == SetState(c.obj, GotData)
                  o2 == Post(o1, DidReceiveData(o1.m_networkBuffer, c.chunk, c.bytesRead))
                  o3 == [o2 EXCEPT !.m_networkBuffer = 0]
              IN  IF o2.crashed # NoCrash THEN o2 ELSE startReading(o3, script)
         ELSE finish([o EXCEPT !.tPending = 0], FALSE)

destroy(o) ==
    IF o.m_loadState # Finished THEN Crash(o, AssertDtor)
    ELSE SetState(o, Deleted)


\* -------------------------------------------------------------------- Init
Threads == {"owner", "io"}
NoLocals == [success |-> FALSE, status |-> "", bytesRead |-> 0, chunk |-> 0,
             ret |-> FALSE, pending |-> FALSE, from |-> ""]

\* WebRequest(loader, request) and WebRequest(loader, request, inputStream)
Init ==
    /\ \/ /\ m_androidUrl = FALSE
          /\ m_inputStream = 0
          /\ m_url \in NetworkUrls \cup DataUrls \cup BrowserUrls
          /\ m_request = 1
       \/ /\ m_androidUrl = TRUE
          /\ m_inputStream \in {0, 1}
          /\ m_url \in AndroidUrls
          /\ m_request = 0
    /\ asset \in IF m_url.scheme = "browser" THEN {NoAsset} \cup Payloads ELSE {NoAsset}
    /\ body \in IF m_url.scheme \in {"http", "android"} THEN 0..MaxChunks ELSE {0}
    /\ m_loadState = Created
    /\ m_urlLoader = 1
    /\ m_networkBuffer = 0
    /\ posted = <<>>
    /\ crashed = NoCrash
    /\ tStarted = FALSE
    /\ tCancelled = FALSE
    /\ tPending = 0
    /\ tPos = 0
    /\ tEof = FALSE
    /\ tFailed = FALSE
    /\ tAuth = 0
    /\ tUpload = 0
    /\ nextBuf = 0
    /\ readsIssued = 0
    /\ stateTrace = <<Created>>
    /\ finishRuns = 0
    /\ redirects = 0
    /\ authAsked = 0
    /\ respStatus = ""
    /\ lastOp = [op |-> "new", arg |-> "", pre |-> Created]
    /\ tick = FALSE
    /\ pc = [t \in Threads |-> "idle"]
    /\ loc = [t \in Threads |-> NoLocals]

\* ------------------------------------------- Spec: one handler, one step
\* The object exists and the process has not aborted.
Callable == crashed = NoCrash /\ m_loadState # Deleted

Did(op, arg) ==
    /\ lastOp' = [op |-> op, arg |-> arg, pre |-> m_loadState]
    /\ tick' = ~tick
    /\ UNCHANGED <<cfgVars, raceVars>>

Start ==
    /\ Callable
    /\ Becomes(start(Cur))
    /\ Did("start", "")
    /\ UNCHANGED envVars

Cancel ==
    /\ Callable
    /\ Becomes(cancel(Cur))
    /\ Did("cancel", "")
    /\ UNCHANGED envVars

AppendUpload ==
    /\ Callable
    /\ tUpload < MaxUpload
    /\ Becomes(AppendBytesToUpload(Cur))
    /\ Did("AppendBytesToUpload", "")
    /\ UNCHANGED envVars

SetAuth ==
    /\ Callable
    /\ tAuth < MaxAuth
    /\ Becomes(setAuth(Cur))
    /\ Did("setAuth", "")
    /\ UNCHANGED envVars

CancelAuth ==
    /\ Callable
    /\ tAuth < MaxAuth
    /\ Becomes(cancelAuth(Cur))
    /\ Did("cancelAuth", "")
    /\ UNCHANGED envVars

Redirect ==
    /\ Callable
    /\ redirects < MaxRedirects
    /\ \E ok \in BOOLEAN :
          /\ Becomes(OnReceivedRedirect(Cur, ok))
          /\ Did("OnReceivedRedirect", IF ok THEN "success" ELSE "failed")
    /\ redirects' = redirects + 1
    /\ UNCHANGED <<authAsked, respStatus>>

AuthChallenge ==
    /\ Callable
    /\ authAsked < MaxAuth
    /\ Becomes(OnAuthRequired(Cur))
    /\ Did("OnAuthRequired", "")
    /\ authAsked' = authAsked + 1
    /\ UNCHANGED <<redirects, respStatus>>

ResponseStarted ==
    /\ Callable
    /\ \E status \in {"success", "failed", "norequest"} :
          \E script \in IF status = "success" THEN Scripts(Cur) ELSE {[nsync |-> 0, last |-> "error"]} :
             /\ Becomes(OnResponseStarted(Cur, status, script))
             /\ Did("OnResponseStarted", status)
             /\ respStatus' = IF m_loadState = Started THEN status ELSE respStatus
    /\ UNCHANGED <<redirects, authAsked>>

ReadCompleted ==
    /\ Callable
    /\ \E status \in {"success", "failed"} :
          \E script \in IF status = "success" THEN Scripts(TransportComplete(Cur).obj)
                        ELSE {[nsync |-> 0, last |-> "error"]} :
             /\ Becomes(OnReadCompleted(Cur, status, script))
             /\ Did("OnReadCompleted", status)
    /\ UNCHANGED envVars

Destroy ==
    /\ Callable
    /\ Becomes(destroy(Cur))
    /\ Did("~WebRequest", "")
    /\ UNCHANGED envVars

Next ==
    \/ Start
    \/ Cancel
    \/ AppendUpload
    \/ SetAuth
    \/ CancelAuth
    \/ Redirect
    \/ AuthChallenge
    \/ ResponseStarted
    \/ ReadCompleted
    \/ Destroy

Spec == Init /\ [][Next]_vars


\* The load state st was assigned at some point.
InTrace(st) == \E i \in 1..Len(stateTrace) : stateTrace[i] = st

\* --------------- SpecAny: the private methods can be entered directly too
Finish ==
    /\ Callable
    /\ \E success \in BOOLEAN :
          /\ Becomes(finish(Cur, success))
          /\ Did("finish", IF success THEN "success" ELSE "failed")
    /\ UNCHANGED envVars

StartReading ==
    /\ Callable
    /\ \E script \in Scripts(Cur) : Becomes(startReading(Cur, script))
    /\ Did("startReading", "")
    /\ UNCHANGED envVars

Read ==
    /\ Callable
    /\ \E mode \in ReadModes : Becomes(read(Cur, mode).obj)
    /\ Did("read", "")
    /\ UNCHANGED envVars

NextAny ==
    \/ Next
    \/ Finish
    \/ StartReading
    \/ Read

SpecAny == Init /\ [][NextAny]_vars

\* ---------- SpecProtocol: serialized handlers, a transport that keeps to
\* its protocol and an owner that starts once and acts only after start()
\* The URLRequest exists, was started, was not told to cancel and has not yet
\* delivered OnResponseStarted.
AwaitingResponse ==
    tStarted /\ ~tCancelled /\ m_request # 0 /\ respStatus = ""

\* The URLRequest exists, was not told to cancel and owes the completion of a
\* read that reported IO_PENDING.
ReadInFlight ==
    tPending # 0 /\ ~tCancelled /\ m_request # 0

PStart == m_loadState = Created /\ Start
PCancel == InTrace(Started) /\ Cancel
PSetAuth == InTrace(Started) /\ SetAuth
PCancelAuth == InTrace(Started) /\ CancelAuth
PRedirect == AwaitingResponse /\ Redirect
PAuthChallenge == AwaitingResponse /\ AuthChallenge
PResponseStarted == AwaitingResponse /\ ResponseStarted
PReadCompleted == ReadInFlight /\ ReadCompleted

NextProtocol ==
    \/ PStart
    \/ PCancel
    \/ PSetAuth
    \/ PCancelAuth
    \/ PRedirect
    \/ PAuthChallenge
    \/ PResponseStarted
    \/ PReadCompleted

SpecProtocol == Init /\ [][NextProtocol]_vars

\* ---- SpecLive: the same, the owner answering auth challenges only while
\* the request is Started, and a transport that eventually delivers
\* OnResponseStarted and eventually completes every pending read.
LSetAuth == m_loadState = Started /\ SetAuth
LCancelAuth == m_loadState = Started /\ CancelAuth

NextLive ==
    \/ PStart
    \/ PCancel
    \/ LSetAuth
    \/ LCancelAuth
    \/ PRedirect
    \/ PAuthChallenge
    \/ PResponseStarted
    \/ PReadCompleted

SpecLive ==
    /\ Init
    /\ [][NextLive]_vars
    /\ WF_vars(PResponseStarted)
    /\ WF_vars(PReadCompleted)

\* ------------------- SpecRace: cancel() against the transport callbacks
\* The owner thread runs cancel(), the IO thread runs OnResponseStarted and
\* OnReadCompleted (with startReading, read and finish); every step is one
\* read or write of a member, or one call into the transport or the loader.
\* The transport delivers a callback only while its URLRequest exists and
\* Cancel() has not been called on it.
At(t, label) == crashed = NoCrash /\ pc[t] = label

RaceStep(t, o, label) ==
    /\ Becomes(o)
    /\ pc' = IF o.crashed # NoCrash THEN pc ELSE [pc EXCEPT ![t] = label]
    /\ UNCHANGED <<cfgVars, redirects, authAsked, lastOp, tick>>

\* Calling finish(success) from thread t.
CallFinish(t, o, success) ==
    /\ RaceStep(t, o, "f_assert")
    /\ loc' = [loc EXCEPT ![t].success = success]

RStart ==
    /\ pc["owner"] = "idle"
    /\ pc["io"] = "idle"
    /\ m_loadState = Created
    /\ Start

RCancelCall ==
    /\ At("owner", "idle")
    /\ InTrace(Started)
    /\ m_loadState # Deleted
    /\ RaceStep("owner", Cur, "c_assert1")
    /\ UNCHANGED <<loc, respStatus>>

RCancelAssertStarted ==
    /\ At("owner", "c_assert1")
    /\ RaceStep("owner",
                IF ~(m_loadState >= Started) THEN Crash(Cur, AssertCancelNotStarted) ELSE Cur,
                "c_assert2")
    /\ UNCHANGED <<loc, respStatus>>

RCancelAssertNotCancelled ==
    /\ At("owner", "c_assert2")
    /\ RaceStep("owner",
                IF ~(m_loadState # Cancelled) THEN Crash(Cur, AssertCancelTwice) ELSE Cur,
                "c_check")
    /\ UNCHANGED <<loc, respStatus>>

RCancelCheckFinished ==
    /\ At("owner", "c_check")
    /\ RaceStep("owner", Cur, IF m_loadState > Cancelled THEN "idle" ELSE "c_assert3")
    /\ UNCHANGED <<loc, respStatus>>

RCancelAssertRequest ==
    /\ At("owner", "c_assert3")
    /\ RaceStep("owner",
                IF m_request = 0 THEN Crash(Cur, AssertRequestNull) ELSE Cur,
                "c_state")
    /\ UNCHANGED <<loc, respStatus>>

RCancelSetState ==
    /\ At("owner", "c_state")
    /\ RaceStep("owner", SetState(Cur, Cancelled), "c_cancel")
    /\ UNCHANGED <<loc, respStatus>>

RCancelTransport ==
    /\ At("owner", "c_cancel")
    /\ CallFinish("owner",
                  IF m_request = 0 THEN Crash(Cur, NullDeref)
                  ELSE [Cur EXCEPT !.tCancelled = TRUE],
                  TRUE)
    /\ UNCHANGED respStatus

RFinishAssert(t) ==
    /\ At(t, "f_assert")
    /\ RaceStep(t, IF ~(m_loadState < Finished) THEN Crash(Cur, AssertFinish) ELSE Cur, "f_state")
    /\ UNCHANGED <<loc, respStatus>>

RFinishSetState(t) ==
    /\ At(t, "f_state")
    /\ RaceStep(t, SetState(Cur, Finished), "f_post")
    /\ UNCHANGED <<loc, respStatus>>

RFinishPost(t) ==
    /\ At(t, "f_post")
    /\ RaceStep(t,
                IF loc[t].success THEN Post(Cur, DidFinishLoading)
                ELSE Post(Cur, DidFail(WebResponseOf(m_request))),
                "f_buf")
    /\ UNCHANGED <<loc, respStatus>>

RFinishClearBuffer(t) ==
    /\ At(t, "f_buf")
    /\ RaceStep(t, [Cur EXCEPT !.m_networkBuffer = 0], "f_req")
    /\ UNCHANGED <<loc, respStatus>>

RFinishClearRequest(t) ==
    /\ At(t, "f_req")
    /\ RaceStep(t, [Cur EXCEPT !.m_request = 0], "f_loader")
    /\ UNCHANGED <<loc, respStatus>>

RFinishClearLoader(t) ==
    /\ At(t, "f_loader")
    /\ RaceStep(t, [Cur EXCEPT !.m_urlLoader = 0, !.finishRuns = @ + 1], "idle")
    /\ UNCHANGED <<loc, respStatus>>

RResponseCall ==
    /\ At("io", "idle")
    /\ tStarted /\ ~tCancelled /\ m_request # 0
    /\ respStatus = ""
    /\ \E status \in {"success", "failed", "norequest"} :
          /\ respStatus' = status
          /\ loc' = [loc EXCEPT !["io"].status = status]
    /\ RaceStep("io", Cur, "r_assert")

RResponseAssert ==
    /\ At("io", "r_assert")
    /\ RaceStep("io", IF m_loadState # Started THEN Crash(Cur, AssertResponse) ELSE Cur, "r_state")
    /\ UNCHANGED <<loc, respStatus>>

RResponseSetState ==
    /\ At("io", "r_state")
    /\ RaceStep("io", SetState(Cur, Response), "r_branch")
    /\ UNCHANGED <<loc, respStatus>>

RResponseBranch ==
    /\ At("io", "r_branch")
    /\ IF loc["io"].status = "success"
       THEN /\ RaceStep("io", Post(Cur, DidReceiveResponse(WebResponseOf(1))), "s_assert")
            /\ UNCHANGED loc
       ELSE CallFinish("io", Cur, FALSE)
    /\ UNCHANGED respStatus

RStartReadingAssert ==
    /\ At("io", "s_assert")
    /\ RaceStep("io",
                IF ~(m_loadState = Response \/ m_loadState = GotData)
                THEN Crash(Cur, AssertStartReading) ELSE Cur,
                "rd_assert1")
    /\ UNCHANGED <<loc, respStatus>>

RReadAssertState ==
    /\ At("io", "rd_assert1")
    /\ RaceStep("io",
                IF ~(m_loadState = Response \/ m_loadState = GotData)
                THEN Crash(Cur, AssertRead) ELSE Cur,
                "rd_assert2")
    /\ UNCHANGED <<loc, respStatus>>

RReadAssertBuffer ==
    /\ At("io", "rd_assert2")
    /\ RaceStep("io", IF m_networkBuffer # 0 THEN Crash(Cur, AssertReadBuffer) ELSE Cur, "rd_alloc")
    /\ UNCHANGED <<loc, respStatus>>

RReadAlloc ==
    /\ At("io", "rd_alloc")
    /\ RaceStep("io", [Cur EXCEPT !.nextBuf = @ + 1, !.m_networkBuffer = nextBuf + 1], "rd_read")
    /\ UNCHANGED <<loc, respStatus>>

\* m_request->Read(...); a cancelled transport reports the end of the body or
\* an error, never data and never IO_PENDING.
RReadTransport ==
    /\ At("io", "rd_read")
    /\ IF m_request = 0
       THEN /\ RaceStep("io", Crash(Cur, NullDeref), "s_branch")
            /\ UNCHANGED loc
       ELSE \E mode \in IF tCancelled \/ tEof THEN {"sync", "error"} ELSE ReadModes :
               LET r == TransportRead(Cur, m_networkBuffer, mode)
               IN  /\ RaceStep("io", r.obj, "s_branch")
                   /\ loc' = [loc EXCEPT !["io"].ret = r.ret, !["io"].bytesRead = r.bytesRead,
                                         !["io"].chunk = r.chunk, !["io"].pending = r.pending]
    /\ UNCHANGED respStatus

RStartReadingBranch ==
    /\ At("io", "s_branch")
    /\ IF loc["io"].ret
       THEN IF loc["io"].bytesRead = 0
            THEN CallFinish("io", Cur, TRUE)
            ELSE RaceStep("io", Cur, "s_state") /\ UNCHANGED loc
       ELSE IF m_request # 0 /\ loc["io"].pending
            THEN RaceStep("io", Cur, "idle") /\ UNCHANGED loc
            ELSE CallFinish("io", Cur, FALSE)
    /\ UNCHANGED respStatus

RStartReadingSetState ==
    /\ At("io", "s_state")
    /\ RaceStep("io", SetState(Cur, GotData), "s_post")
    /\ UNCHANGED <<loc, respStatus>>

RStartReadingPost ==
    /\ At("io", "s_post")
    /\ RaceStep("io",
                Post(Cur, DidReceiveData(m_networkBuffer, loc["io"].chunk, loc["io"].bytesRead)),
                "s_clear")
    /\ UNCHANGED <<loc, respStatus>>

RStartReadingClear ==
    /\ At("io", "s_clear")
    /\ RaceStep("io", [Cur EXCEPT !.m_networkBuffer = 0], "rd_assert1")
    /\ UNCHANGED <<loc, respStatus>>

RReadCompletedCall ==
    /\ At("io", "idle")
    /\ tPending # 0 /\ ~tCancelled /\ m_request # 0
    /\ \E status \in {"success", "failed"} :
          LET c == IF status = "success" THEN TransportComplete(Cur)
                   ELSE [obj |-> [Cur EXCEPT !.tPending = 0], bytesRead |-> 0, chunk |-> 0]
          IN  /\ RaceStep("io", c.obj, "o_assert")
              /\ loc' = [loc EXCEPT !["io"].status = status, !["io"].bytesRead = c.bytesRead,
                                    !["io"].chunk = c.chunk]
    /\ UNCHANGED respStatus

RReadCompletedAssert ==
    /\ At("io", "o_assert")
    /\ RaceStep("io",
                IF ~(m_loadState = Response \/ m_loadState = GotData)
                THEN Crash(Cur, AssertReadCompleted) ELSE Cur,
                "o_branch")
    /\ UNCHANGED <<loc, respStatus>>

RReadCompletedBranch ==
    /\ At("io", "o_branch")
    /\ IF loc["io"].status = "success"
       THEN RaceStep("io", Cur, "o_state") /\ UNCHANGED loc
       ELSE CallFinish("io", Cur, FALSE)
    /\ UNCHANGED respStatus

RReadCompletedSetState ==
    /\ At("io", "o_state")
    /\ RaceStep("io", SetState(Cur, GotData), "o_post")
    /\ UNCHANGED <<loc, respStatus>>

RReadCompletedPost ==
    /\ At("io", "o_post")
    /\ RaceStep("io",
                Post(Cur, DidReceiveData(m_networkBuffer, loc["io"].chunk, loc["io"].bytesRead)),
                "o_clear")
    /\ UNCHANGED <<loc, respStatus>>

RReadCompletedClear ==
    /\ At("io", "o_clear")
    /\ RaceStep("io", [Cur EXCEPT !.m_networkBuffer = 0], "s_assert")
    /\ UNCHANGED <<loc, respStatus>>

NextRace ==
    \/ RStart
    \/ RCancelCall
    \/ RCancelAssertStarted
    \/ RCancelAssertNotCancelled
    \/ RCancelCheckFinished
    \/ RCancelAssertRequest
    \/ RCancelSetState
    \/ RCancelTransport
    \/ \E t \in Threads : RFinishAssert(t)
    \/ \E t \in Threads : RFinishSetState(t)
    \/ \E t \in Threads : RFinishPost(t)
    \/ \E t \in Threads : RFinishClearBuffer(t)
    \/ \E t \in Threads : RFinishClearRequest(t)
    \/ \E t \in Threads : RFinishClearLoader(t)
    \/ RResponseCall
    \/ RResponseAssert
    \/ RResponseSetState
    \/ RResponseBranch
    \/ RStartReadingAssert
    \/ RReadAssertState
    \/ RReadAssertBuffer
    \/ RReadAlloc
    \/ RReadTransport
    \/ RStartReadingBranch
    \/ RStartReadingSetState
    \/ RStartReadingPost
    \/ RStartReadingClear
    \/ RReadCompletedCall
    \/ RReadCompletedAssert
    \/ RReadCompletedBranch
    \/ RReadCompletedSetState
    \/ RReadCompletedPost
    \/ RReadCompletedClear

SpecRace == Init /\ [][NextRace]_vars

\* ------------------------------------------------------------- properties
Count(seq, types) == Cardinality({i \in 1..Len(seq) : seq[i].type \in types})
Terminals == Count(posted, TerminalTypes)

\* C1: with serialized handlers, the tasks posted for a request hold at most
\* one of didFinishLoading / didFail, that one is the last task posted, and a
\* request in Finished (or Deleted) has posted exactly one.
C1_OneTerminalAndLast ==
    /\ Terminals <= 1
    /\ \A i \in 1..Len(posted) : posted[i].type \in TerminalTypes => i = Len(posted)
    /\ m_loadState >= Finished => Terminals = 1
    /\ Terminals = 1 => m_loadState >= Finished

\* A cancel() that found the request finished, after data and a terminal task.
C1_Witness ==
    /\ lastOp.op = "cancel"
    /\ lastOp.pre = Finished
    /\ crashed = NoCrash
    /\ Len(posted) >= 3
    /\ Terminals = 1

\* C3: a cancel() invoked on a finished request (after a first cancel() or
\* after the request finished on its own) posts nothing, changes no field of
\* the request or of the transport, and fires no ASSERT.
C3_CancelIdempotent ==
    [][(lastOp'.op = "cancel" /\ tick' # tick /\ m_loadState >= Finished)
          => UNCHANGED objVars]_vars

\* A second cancel() after the first one returned.
C3_Witness ==
    /\ lastOp.op = "cancel"
    /\ lastOp.pre = Finished
    /\ InTrace(Cancelled)
    /\ crashed = NoCrash
    /\ Terminals = 1

\* C4: read() never finds m_networkBuffer set (its ASSERT never fires), and
\* between handlers the only buffer the request holds is the one lent to the
\* transport's pending read.
C4_OneOutstandingBuffer ==
    /\ crashed # AssertReadBuffer
    /\ m_networkBuffer # 0 =>
          /\ tPending = m_networkBuffer
          /\ m_loadState \in {Response, GotData}

\* Several reads, some synchronous and some resumed by OnReadCompleted.
C4_Witness ==
    /\ lastOp.op = "OnReadCompleted"
    /\ nextBuf >= 3
    /\ readsIssued >= 3
    /\ m_networkBuffer # 0
    /\ Count(posted, {"didReceiveData"}) >= 2


FirstIndex(types) ==
    IF Count(posted, types) = 0 THEN Len(posted) + 1
    ELSE CHOOSE i \in 1..Len(posted) :
            /\ posted[i].type \in types
            /\ \A j \in 1..(i - 1) : posted[j].type \notin types
Responses == Count(posted, {"didReceiveResponse"})

\* C5 as stated: a request whose load state reached Response has posted
\* exactly one didReceiveResponse, ahead of every data task.
C5_ResponseOnceWhenReached ==
    InTrace(Response) =>
        /\ Responses = 1
        /\ FirstIndex({"didReceiveResponse"}) < FirstIndex(DataTypes)

\* C5 amended: a request whose load state reached Response has posted exactly
\* one didReceiveResponse, ahead of every data task, unless Response was
\* entered by an OnResponseStarted with a failed status or no request: that
\* request has posted a didFail, no didReceiveResponse and no data task.
C5_ResponseOnceUnlessFailedStart ==
    InTrace(Response) =>
        IF respStatus \in {"failed", "norequest"}
        THEN /\ Responses = 0
             /\ Count(posted, DataTypes) = 0
             /\ Count(posted, {"didFail"}) = 1
        ELSE /\ Responses = 1
             /\ FirstIndex({"didReceiveResponse"}) < FirstIndex(DataTypes)

\* A network request that got its response and then several chunks.
C5_Witness ==
    /\ InTrace(Response)
    /\ respStatus = "success"
    /\ Responses = 1
    /\ Count(posted, {"didReceiveData"}) >= 2

\* C6: OnResponseStarted accepted in Started with a failed status (or with no
\* request) posts one didFail and nothing else, leaves the state Finished,
\* allocates no buffer and issues no read.
C6_FailedResponseStart ==
    [][(/\ lastOp'.op = "OnResponseStarted"
        /\ lastOp'.arg \in {"failed", "norequest"}
        /\ tick' # tick
        /\ m_loadState = Started)
          => /\ posted' = Append(posted, DidFail(WebResponseOf(m_request)))
             /\ m_loadState' = Finished
             /\ crashed' = NoCrash
             /\ nextBuf' = nextBuf
             /\ m_networkBuffer' = 0
             /\ readsIssued' = readsIssued]_vars

C6_Witness ==
    /\ lastOp.op = "OnResponseStarted"
    /\ lastOp.arg = "failed"
    /\ lastOp.pre = Started
    /\ m_loadState = Finished
    /\ Count(posted, {"didFail"}) = 1

\* The didReceiveData tasks posted, in order.
DataPosted == SelectSeq(posted, LAMBDA n : n.type = "didReceiveData")

\* C7: a network request that read its whole body of k chunks and then the
\* zero-length read, without error or cancel, has posted exactly k
\* didReceiveData, carrying chunks 1..k in order, and then didFinishLoading.
C7_ChunksThenFinish ==
    (/\ m_url.scheme = "http"
     /\ m_loadState = Finished
     /\ ~InTrace(Cancelled)
     /\ posted # <<>>
     /\ posted[Len(posted)] = DidFinishLoading)
        => /\ Len(DataPosted) = body
           /\ \A i \in 1..Len(DataPosted) : DataPosted[i].chunk = i /\ DataPosted[i].size > 0

\* C8: in Finished the request holds no transport handle, no buffer and no
\* consumer handle, and finish() released them exactly once.
C8_FinishedHoldsNothing ==
    m_loadState = Finished =>
        /\ m_request = 0
        /\ m_networkBuffer = 0
        /\ m_urlLoader = 0
        /\ finishRuns = 1

\* C9: the values assigned to m_loadState go forward in the order Created,
\* Started, Response, GotData, Cancelled, Finished, Deleted; only GotData is
\* assigned again; Cancelled comes after Started, Response or GotData and
\* Finished is assigned right after it; Finished is assigned once.
C9_StateOrder ==
    /\ stateTrace[1] = Created
    /\ \A i \in 1..(Len(stateTrace) - 1) :
          LET a == stateTrace[i]
              b == stateTrace[i + 1]
          IN  /\ a < b \/ (a = b /\ a = GotData)
              /\ b = Cancelled => a \in {Started, Response, GotData}
              /\ a = Cancelled => b = Finished
    /\ stateTrace[Len(stateTrace)] # Cancelled
    /\ stateTrace[Len(stateTrace)] = m_loadState
    /\ Cardinality({i \in 1..Len(stateTrace) : stateTrace[i] = Finished}) <= 1

\* A request cancelled while reading, then destroyed.
C9_Witness ==
    /\ m_loadState = Deleted
    /\ InTrace(Cancelled)
    /\ InTrace(GotData)
    /\ Len(stateTrace) >= 7

\* What C10 expects start() to post for a data URL that decodes.
DataUrlTasks(url) ==
    <<DidReceiveResponse(WebResponse(url.spec, url.mime, Len(url.payload), url.charset, 200))>>
    \o (IF url.payload # <<>> THEN <<DidReceiveDataUrl(url.payload)>> ELSE <<>>)
    \o <<DidFinishLoading>>

\* C10: start() on a data URL that decodes posts didReceiveResponse (200, the
\* decoded MIME type and charset, the payload size), then didReceiveDataUrl
\* if and only if the payload is not empty, then didFinishLoading.
C10_DataUrlTasks ==
    [][(/\ lastOp'.op = "start"
        /\ tick' # tick
        /\ m_loadState = Created
        /\ m_url.scheme = "data"
        /\ m_url.wellFormed)
          => /\ posted' = posted \o DataUrlTasks(m_url)
             /\ m_loadState' = Finished
             /\ crashed' = NoCrash]_vars

\* start() ran on a data URL with an empty payload.
C10_Witness ==
    /\ lastOp.op = "start"
    /\ lastOp.pre = Created
    /\ m_url.scheme = "data"
    /\ m_url.wellFormed
    /\ m_url.payload = <<>>
    /\ m_loadState = Finished
    /\ posted = <<DidReceiveResponse(WebResponse(m_url.spec, m_url.mime, 0, m_url.charset, 200)),
                  DidFinishLoading>>


BothIdle == \A t \in Threads : pc[t] = "idle"

\* C2: whatever the interleaving of cancel() with a transport callback, at
\* most one termination task is posted (exactly one once both threads are
\* back and the request is Finished), finish() releases the handles once, and
\* no ASSERT fires and no cleared handle is dereferenced.
C2_RaceResolved ==
    /\ Terminals <= 1
    /\ finishRuns <= 1
    /\ crashed = NoCrash
    /\ (BothIdle /\ m_loadState = Finished) => Terminals = 1

\* C11: start() on an InputStream request without a stream posts exactly one
\* task, a didFail whose WebResponse has an empty MIME type, an empty
\* encoding, length 0 and status 0, and leaves the load state Finished.
C11_NullStreamFails ==
    [][(/\ lastOp'.op = "start"
        /\ tick' # tick
        /\ m_loadState = Created
        /\ m_androidUrl
        /\ m_inputStream = 0)
          => /\ posted' = Append(posted, DidFail(WebResponse(m_url.spec, "", 0, "", 0)))
             /\ m_loadState' = Finished
             /\ crashed' = NoCrash]_vars

C11_Witness ==
    /\ lastOp.op = "start"
    /\ lastOp.pre = Created
    /\ m_androidUrl
    /\ m_inputStream = 0
    /\ m_loadState = Finished
    /\ Len(posted) = 1
    /\ posted[1].type = "didFail"
    /\ posted[1].resp.mime = "" /\ posted[1].resp.charset = ""
    /\ posted[1].resp.len = 0 /\ posted[1].resp.status = 0

\* The states in which the ASSERTs on m_loadState let an operation in.
InRange(op, st) ==
    CASE op \in {"start", "AppendBytesToUpload"} -> st = Created
      [] op \in {"setAuth", "cancelAuth", "OnAuthRequired", "OnResponseStarted"} -> st = Started
      [] op = "OnReceivedRedirect" -> st < Response
      [] op \in {"OnReadCompleted", "startReading", "read"} -> st \in {Response, GotData}
      [] op = "cancel" -> st >= Started /\ st # Cancelled
      [] op = "finish" -> st < Finished
      [] op = "~WebRequest" -> st = Finished
      [] OTHER -> FALSE

\* The message of the ASSERT on m_loadState at the head of an operation.
AssertsOf(op) ==
    CASE op = "start" -> {AssertStart}
      [] op = "AppendBytesToUpload" -> {AssertAppend}
      [] op = "setAuth" -> {AssertSetAuth}
      [] op = "cancelAuth" -> {AssertCancelAuth}
      [] op = "OnAuthRequired" -> {AssertAuthRequired}
      [] op = "OnResponseStarted" -> {AssertResponse}
      [] op = "OnReceivedRedirect" -> {AssertRedirect}
      [] op = "OnReadCompleted" -> {AssertReadCompleted}
      [] op = "startReading" -> {AssertStartReading}
      [] op = "read" -> {AssertRead}
      [] op = "cancel" -> {AssertCancelNotStarted, AssertCancelTwice}
      [] op = "finish" -> {AssertFinish}
      [] op = "~WebRequest" -> {AssertDtor}
      [] OTHER -> {}

StateAsserts ==
    {AssertStart, AssertAppend, AssertSetAuth, AssertCancelAuth, AssertAuthRequired,
     AssertResponse, AssertRedirect, AssertReadCompleted, AssertStartReading, AssertRead,
     AssertCancelNotStarted, AssertCancelTwice, AssertFinish, AssertDtor}

objNoCrash == <<m_loadState, m_request, m_urlLoader, m_networkBuffer, posted,
                tStarted, tCancelled, tPending, tPos, tEof, tFailed, tAuth, tUpload, nextBuf,
                readsIssued, stateTrace, finishRuns>>

\* C12: an operation entered outside its range of load states fires the
\* ASSERT at its head and changes nothing and posts nothing; entered inside
\* its range it fires no ASSERT on the load state.
C12_StateRanges ==
    [][tick' # tick =>
          IF InRange(lastOp'.op, m_loadState)
          THEN crashed' \notin StateAsserts
          ELSE /\ crashed' \in AssertsOf(lastOp'.op)
               /\ UNCHANGED objNoCrash]_vars

\* OnReadCompleted delivered to a request that is only Started.
C12_Witness ==
    /\ lastOp.op = "OnReadCompleted"
    /\ lastOp.pre = Started
    /\ crashed = AssertReadCompleted
    /\ m_loadState = Started
    /\ posted = <<>>

\* C13: once start() has run on a request that does not go to the network
\* (InputStream, data or browser URL), the load state is Finished and
\* finish() has been invoked exactly once.
C13_ContentSourceFinishesOnce ==
    (/\ lastOp.op = "start"
     /\ lastOp.pre = Created
     /\ (m_androidUrl \/ m_url.scheme \in {"data", "browser"}))
        => /\ m_loadState = Finished
           /\ finishRuns = 1

\* C14: cancel() entered in Started, Response or GotData assigns Cancelled and
\* then Finished, tells the transport to cancel, posts one didFinishLoading
\* and nothing else, drops the buffer of a pending read without forwarding
\* it, and returns without an ASSERT firing.
C14_CancelFinishes ==
    [][(/\ lastOp'.op = "cancel"
        /\ tick' # tick
        /\ m_loadState \in {Started, Response, GotData})
          => /\ stateTrace' = stateTrace \o <<Cancelled, Finished>>
             /\ m_loadState' = Finished
             /\ tCancelled'
             /\ posted' = Append(posted, DidFinishLoading)
             /\ m_networkBuffer' = 0
             /\ finishRuns' = finishRuns + 1
             /\ readsIssued' = readsIssued
             /\ crashed' = NoCrash]_vars

\* cancel() ran while a buffer was waiting on a pending read.
C14_Witness ==
    /\ lastOp.op = "cancel"
    /\ lastOp.pre = GotData
    /\ tPending # 0
    /\ m_networkBuffer = 0
    /\ m_loadState = Finished
    /\ posted[Len(posted)] = DidFinishLoading
    /\ \A i \in 1..Len(posted) : posted[i].buf # tPending

\* A step that delivers OnReadCompleted for the read that was pending when
\* cancel() ran, after cancel() has returned.
LateReadCompleted ==
    /\ lastOp'.op = "OnReadCompleted"
    /\ tick' # tick
    /\ m_loadState = Finished
    /\ InTrace(Cancelled)
    /\ tPending # 0

\* cancel() leaves the transport's pending read as it is, and once cancel()
\* has returned nothing more is posted.
CancelSilences ==
    /\ (lastOp'.op = "cancel" /\ tick' # tick /\ m_loadState \in {Response, GotData})
          => tPending' = tPending
    /\ (InTrace(Cancelled) /\ m_loadState >= Finished) => posted' = posted

\* C15 as stated: cancel() does not interrupt the read in flight, nothing is
\* posted after it returned, and an OnReadCompleted delivered later for that
\* read has no effect at all.
C15_LateCompletionIgnored ==
    [][/\ CancelSilences
       /\ LateReadCompleted => UNCHANGED objVars]_vars

\* C15 amended: cancel() does not interrupt the read in flight and nothing is
\* posted after it returned; an OnReadCompleted delivered later for that read
\* posts nothing and changes no field, but it is not ignored: it fires the
\* ASSERT at the head of OnReadCompleted, which aborts the process.
C15_LateCompletionAborts ==
    [][/\ CancelSilences
       /\ LateReadCompleted =>
             /\ crashed' = AssertReadCompleted
             /\ UNCHANGED objNoCrash]_vars

C15_Witness ==
    /\ lastOp.op = "OnReadCompleted"
    /\ lastOp.pre = Finished
    /\ InTrace(Cancelled)
    /\ tPending # 0
    /\ crashed = AssertReadCompleted
    /\ posted[Len(posted)] = DidFinishLoading

\* A step in which the transport reports a failure to the request.
FailedAtResponseStart ==
    lastOp'.op = "OnResponseStarted" /\ lastOp'.arg \in {"failed", "norequest"} /\ m_loadState = Started
FailedAtReadCompleted ==
    lastOp'.op = "OnReadCompleted" /\ lastOp'.arg = "failed" /\ m_loadState \in {Response, GotData}
FailedAtRead == tFailed' /\ ~tFailed
FailedAtRedirect ==
    lastOp'.op = "OnReceivedRedirect" /\ lastOp'.arg = "failed" /\ m_loadState = Started

\* The step ends the request through finish(false): Finished, one didFail,
\* posted last.
EndsWithDidFail ==
    /\ m_loadState' = Finished
    /\ finishRuns' = finishRuns + 1
    /\ posted' # <<>>
    /\ posted'[Len(posted')].type = "didFail"
    /\ Count(posted', {"didFail"}) = 1

\* C16: a failed status at OnResponseStarted, at OnReadCompleted or at
\* OnReceivedRedirect, and a read that fails without IO_PENDING, each end the
\* request through finish(false) with one didFail; afterwards the transport
\* is not started or read again.
C16_FailuresEndInDidFail ==
    [][/\ (tick' # tick /\ (FailedAtResponseStart \/ FailedAtReadCompleted
                              \/ FailedAtRead \/ FailedAtRedirect))
             => EndsWithDidFail
       /\ m_loadState >= Finished => (readsIssued' = readsIssued /\ tStarted' = tStarted)]_vars

\* The buffers carried by the didReceiveData tasks posted so far.
ForwardedBuffers == {posted[i].buf : i \in {j \in 1..Len(posted) : posted[j].type = "didReceiveData"}}

\* C17: every didReceiveData carries a buffer (never null), no two carry the
\* same buffer, the request never holds a buffer that a posted task carries,
\* and the buffer lent to the transport's pending read is not one already
\* forwarded.
C17_BufferHandOff ==
    /\ \A i \in 1..Len(posted) : posted[i].type = "didReceiveData" => posted[i].buf # 0
    /\ \A i, j \in 1..Len(posted) :
          (posted[i].type = "didReceiveData" /\ posted[j].type = "didReceiveData" /\ i # j)
             => posted[i].buf # posted[j].buf
    /\ m_networkBuffer \notin ForwardedBuffers
    /\ tPending \notin ForwardedBuffers

\* Two buffers forwarded and a third one lent to a pending read.
C17_Witness ==
    /\ Cardinality(ForwardedBuffers) >= 2
    /\ m_networkBuffer # 0
    /\ tPending = m_networkBuffer
    /\ lastOp.op = "OnReadCompleted"

\* C18 as stated: with serialized handlers, a transport that keeps to its
\* protocol and an owner that calls cancel, setAuth and cancelAuth only after
\* start(), no ASSERT fires.
C18_NoAssertFires == crashed = NoCrash

\* C18 amended: under the same conditions the only ASSERT that can fire is the
\* one at the head of setAuth / cancelAuth, when the owner calls it while the
\* request is not (or no longer) Started; an owner that supplies or cancels
\* credentials only while the request is Started fires none.
C18_OnlyLateCredentialsAbort ==
    crashed # NoCrash =>
        /\ lastOp.op \in {"setAuth", "cancelAuth"}
        /\ lastOp.pre # Started
        /\ crashed = IF lastOp.op = "setAuth" THEN AssertSetAuth ELSE AssertCancelAuth

\* A redirect, an auth challenge answered in time, data, then two cancels.
C18_Witness ==
    /\ crashed = NoCrash
    /\ redirects >= 1 /\ authAsked >= 1 /\ tAuth >= 1
    /\ Count(posted, {"didReceiveData"}) >= 1
    /\ InTrace(Cancelled)
    /\ lastOp.op = "cancel"
    /\ lastOp.pre = Finished

\* C19: a network request that was started eventually reaches Finished,
\* given a transport that eventually delivers OnResponseStarted and
\* eventually completes every pending read.
C19_EventuallyFinished == tStarted ~> (m_loadState >= Finished)

\* A body read to its end, the last reads resumed by OnReadCompleted.
C19_Witness ==
    /\ m_loadState = Finished
    /\ lastOp.op = "OnReadCompleted"
    /\ lastOp.arg = "success"
    /\ tEof
    /\ ~InTrace(Cancelled)
    /\ Count(posted, {"didReceiveData"}) >= 2
    /\ posted[Len(posted)] = DidFinishLoading

\* The step is a call of OnReceivedRedirect or OnAuthRequired.
RedirectOrAuthStep ==
    /\ tick' # tick
    /\ lastOp'.op \in {"OnReceivedRedirect", "OnAuthRequired"}

\* The notification such a call may post.
NoticeOf(op) == IF op = "OnReceivedRedirect" THEN "willSendRequest" ELSE "authRequired"

\* At most one notification, of the handler's own kind, and nothing else
\* of the object moves.
RedirectAuthFrame ==
    RedirectOrAuthStep =>
        /\ m_loadState' = m_loadState
        /\ m_networkBuffer' = m_networkBuffer
        /\ m_request' = m_request
        /\ m_urlLoader' = m_urlLoader
        /\ stateTrace' = stateTrace
        /\ finishRuns' = finishRuns
        /\ \/ posted' = posted
           \/ /\ Len(posted') = Len(posted) + 1
              /\ SubSeq(posted', 1, Len(posted)) = posted
              /\ posted'[Len(posted')].type = NoticeOf(lastOp'.op)

\* The four operations the request must still take after a redirect or an
\* auth challenge that found it Started.
StillAccepted ==
    /\ m_loadState = Started
    /\ crashed = NoCrash
    /\ setAuth(Cur).crashed = NoCrash
    /\ cancelAuth(Cur).crashed = NoCrash
    /\ cancel(Cur).crashed = NoCrash
    /\ \A status \in {"success", "failed", "norequest"} :
          \A script \in IF status = "success" THEN Scripts(Cur) ELSE {[nsync |-> 0, last |-> "error"]} :
             OnResponseStarted(Cur, status, script).crashed = NoCrash

\* C20: OnReceivedRedirect and OnAuthRequired post at most one notification
\* each and leave the load state, the read buffer, the transport handle and
\* the consumer handle unchanged; a request that was Started when they were
\* called is Started afterwards and still takes setAuth, cancelAuth, cancel
\* and OnResponseStarted.
C20_RedirectAuthFrame ==
    /\ [][RedirectAuthFrame]_vars
    /\ [](lastOp.op \in {"OnReceivedRedirect", "OnAuthRequired"} /\ lastOp.pre = Started
             => StillAccepted)

\* A redirect and an auth challenge both delivered to a Started request.
C20_Witness ==
    /\ m_loadState = Started
    /\ redirects >= 1 /\ authAsked >= 1
    /\ lastOp.op = "OnAuthRequired" /\ lastOp.pre = Started
    /\ Count(posted, {"willSendRequest"}) = 1
    /\ Count(posted, {"authRequired"}) = 1
    /\ crashed = NoCrash

====
